---- MODULE Spec2Model ----
(***************************************************************************)
(* Hopscotch hash map (src/src/hash_map.hpp): the entry store objects_, a  *)
(* std::list of (key, value) pairs, the bucket table buckets_, a vector of *)
(* Bucket records threaded into one doubly linked chain per home bucket,   *)
(* and the neighbourhood size.  Bucket iterators are modelled by their     *)
(* offset from buckets_.begin() (buckets_.end() is the table size), list   *)
(* iterators by the identity of the list node they designate.              *)
(***************************************************************************)
EXTENDS Integers, Sequences, FiniteSets, TLC

\* ------------------------------------------------------------------ bounds
\* Keys are 0 .. NumKeys-1, mapped values 0 .. MaxVal (0 is ValueType{}); the
\* hash values are 0 and the multiples, up to MaxHash times, of the index of
\* the last bucket of the initial table.
NumKeys == 5
MaxVal == 1
MaxHash == 1
\* public operations applied after construction
MaxOps == 2
\* the hash values 0 .. MaxHome of the hashers under which an insert is taken
\* statement by statement
MaxHome == 3
\* the keys erased between the inserts taken statement by statement
MaxErase == 1
\* the times capacity and neighbourhood size have grown in the tables an
\* insert is started from when the rehash policy is examined
MaxGrow == 2

Keys == 0 .. (NumKeys - 1)
Values == 0 .. MaxVal
\* list nodes the allocator can hand out: those of the container, of its copy
\* and of the temporary of operator=, and the freed ones buckets still refer to
Nodes == 0 .. (3 * NumKeys + MaxOps - 1)

\* --------------------------------------------------------------- constants
\* std::numeric_limits<SizeType>::max(), the bit pattern of (SizeType)-1
NULL_DELTA == -1
EMPTY_BUCKET == -1
size_modifier_ == 3
neighbourhood_modifier_ == 3
min_neighbourhood_size_ == 4

\* the hash values a key can have
HashValues == {i * (min_neighbourhood_size_ - 1) : i \in 0 .. MaxHash}

\* "no value": an absent key of the reference map, an unused field of ret
None == -1

\* a default-constructed (singular) list iterator, and objects_.end()
NoIter == -1
ListEnd == -2

VARIABLES
    objects_,             \* std::list<ObjectType>: sequence of nodes, front first
    buckets_,             \* std::vector<Bucket>: function 0 .. size-1 -> Bucket
    neighbourhood_size_,  \* SizeType
    hasher_,              \* Hash: the hash value of every key
    ref,                  \* the reference map (std::map) run side by side
    made,                 \* key -> the handle returned by the insert that created it
    ret,                  \* the last public operation: its arguments and result
    ops,                  \* public operations applied since construction
    pc,                   \* where an insert taken step by step stands
    other,                \* the second container, copied or moved from this one: none, or one
    ref2                  \* the reference map of the second container

vars == <<objects_, buckets_, neighbourhood_size_, hasher_, ref, made, ret, ops, pc,
          other, ref2>>


\* ------------------------------------------------------------ the container
\* Bucket{}: the default member initialisers of struct Bucket
Bucket ==
    [object_it_ |-> NoIter, object_const_it_ |-> NoIter,
     first_delta_ |-> NULL_DELTA, next_delta_ |-> NULL_DELTA,
     prev_delta_ |-> NULL_DELTA, object_bucket_ |-> EMPTY_BUCKET]

\* buckets_.assign(n, Bucket{})
Assign(n) == [i \in 0 .. (n - 1) |-> Bucket]

\* buckets_.size()
Size(bk) == Cardinality(DOMAIN bk)

\* the container's four data members as one value, and with them what the
\* allocator of objects_ does in the call the container is handed to: the
\* nodes its allocations get, in order, those after the last one named being
\* nodes never allocated before
Map(objs, bk, nsize, hash) ==
    [objects_ |-> objs, buckets_ |-> bk, neighbourhood_size_ |-> nsize, hasher_ |-> hash,
     alloc_ |-> <<>>]

\* the container m in a call in which the allocator hands out order
Given(m, order) == [m EXCEPT !.alloc_ = order]

\* the value of a one-element set: Only({e(x) : x \in {d}}) is e(d), with d
\* evaluated once
Only(S) == CHOOSE x \in S : TRUE

\* the node a list iterator designates (dereferencing it)
Deref(objs, it) == CHOOSE o \in {objs[i] : i \in 1 .. Len(objs)} : o.id = it

\* the nodes of a list
Ids(objs) == {objs[i].id : i \in 1 .. Len(objs)}

\* the nodes allocated: those of the lists of the container and of its copy
LiveNodes == Ids(objects_) \cup UNION {Ids(other[j].objects_) : j \in DOMAIN other}

\* the iterators the buckets of a table hold
IteratorsIn(bk) == {bk[i].object_it_ : i \in DOMAIN bk} \ {NoIter}

\* the freed nodes a bucket still holds an iterator to: EraseObject leaves
\* object_it_ of the bucket it empties as it is
Stale ==
    (IteratorsIn(buckets_) \cup UNION {IteratorsIn(other[j].buckets_) : j \in DOMAIN other})
        \ LiveNodes

\* in an allocation order: a node never allocated before, or freed and held
\* by no bucket any more
Fresh == -1

\* what an allocator can do in a call that allocates at most n nodes: each
\* allocation gets a freed node of S, none twice, or another node
RECURSIVE AllocOrders(_, _)
AllocOrders(S, n) ==
    IF n = 0 THEN {<<>>}
    ELSE {<<>>}
         \cup UNION {{<<x>> \o t : t \in AllocOrders(S \ {x}, n - 1)} : x \in S}
         \cup {<<Fresh>> \o t : t \in AllocOrders(S, n - 1) \ {<<>>}}

\* the allocations that follow the next one
Rest(order) == IF order = <<>> THEN <<>> ELSE Tail(order)

\* the node std::list allocates for a new entry of container m: the one the
\* allocator hands out next
NewNode(m) ==
    LET taken == LiveNodes \cup Ids(m.objects_)
        fresh == Nodes \ (taken \cup Stale)
    IN  IF m.alloc_ # <<>> /\ Head(m.alloc_) # Fresh
        THEN Head(m.alloc_)
        ELSE CHOOSE n \in fresh : \A x \in fresh : n <= x

\* objects_.push_front(value)
PushFront(m, key, val) ==
    <<[id |-> NewNode(m), first |-> key, second |-> val]>> \o m.objects_

\* objects_.erase(it)
ListErase(objs, it) == SelectSeq(objs, LAMBDA o : o.id # it)

\* hasher_(key) of an empty std::function: the call throws
\* std::bad_function_call
BadCall == -1

\* the empty std::function
NoHash == [k \in Keys |-> BadCall]

\* hasher_(key) returns
Callable(hash) == hash # NoHash

\* GetStartBucket, the hasher being one that can be called
GetStartBucket(m, key) == m.hasher_[key] % Size(m.buckets_)

\* FindWalk that stops at the head of the chain
FindWalk_head(objs, bk, key, b0) == b0

\* FindObject, lines 323-325: follow next_delta_ to the key or the chain's tail
RECURSIVE FindWalk(_, _, _, _)
FindWalk(objs, bk, key, b0) ==
    Only({ IF /\ Deref(objs, bk[b].object_const_it_).first # key
              /\ bk[b].next_delta_ # NULL_DELTA
           THEN FindWalk(objs, bk, key, b + bk[b].next_delta_)
           ELSE b : b \in {b0} })

\* FindObject: the bucket holding key, or buckets_.end()
FindObject(m, key) ==
    Only({ IF bk[start_bucket].first_delta_ = NULL_DELTA
           THEN Size(bk)
           ELSE Only({ IF Deref(m.objects_, bk[b].object_const_it_).first # key
                       THEN Size(bk)
                       ELSE b :
                       b \in {FindWalk(m.objects_, bk, key,
                                       start_bucket + bk[start_bucket].first_delta_)} }) :
           bk \in {m.buckets_}, start_bucket \in {GetStartBucket(m, key)} })

\* a probe that goes on from the first bucket of the table when it has
\* reached the end: the first empty bucket from b0 on, else the first empty
\* bucket below b0, else end
FreeBucket_wrap(bk, b0) ==
    IF \E b \in DOMAIN bk : b >= b0 /\ bk[b].object_bucket_ = EMPTY_BUCKET
    THEN CHOOSE b \in DOMAIN bk :
            /\ b >= b0
            /\ bk[b].object_bucket_ = EMPTY_BUCKET
            /\ \A c \in b0 .. (b - 1) : bk[c].object_bucket_ # EMPTY_BUCKET
    ELSE IF \E b \in DOMAIN bk : bk[b].object_bucket_ = EMPTY_BUCKET
         THEN CHOOSE b \in DOMAIN bk :
                 /\ bk[b].object_bucket_ = EMPTY_BUCKET
                 /\ \A c \in 0 .. (b - 1) : bk[c].object_bucket_ # EMPTY_BUCKET
         ELSE Size(bk)

\* InsertObject, lines 245-247: the first empty bucket from b0 on, or end
RECURSIVE FreeBucket(_, _)
FreeBucket(bk, b0) ==
    Only({ IF b # Size(bk) /\ bk[b].object_bucket_ # EMPTY_BUCKET
           THEN FreeBucket(bk, b + 1)
           ELSE b : b \in {b0} })

\* the lower end of the window the candidate scan covers
WindowLow(nsize, free) == IF free - (nsize - 1) > 0 THEN free - (nsize - 1) ELSE 0

\* a candidate scan that runs upward from the lower end of the window and
\* stops at the first occupant that may move to free_bucket
RECURSIVE FitUpward(_, _, _, _)
FitUpward(bk, nsize, free, s) ==
    IF s >= free THEN WindowLow(nsize, free)
    ELSE IF nsize > free - bk[s].object_bucket_ THEN s + 1
    ELSE FitUpward(bk, nsize, free, s + 1)

FitBucket_upward(bk, nsize, free, fit0) ==
    FitUpward(bk, nsize, free, WindowLow(nsize, free))

\* InsertObject, lines 252-260: the candidate scan, fit_bucket moving down
\* from free_bucket until the occupant just below it may move to free_bucket
RECURSIVE FitBucket(_, _, _, _)
FitBucket(bk, nsize, free, fit0) ==
    Only({ IF fit # 0 /\ nsize > (free - fit) + 1
           THEN IF nsize > free - bk[fit - 1].object_bucket_
                THEN fit
                ELSE FitBucket(bk, nsize, free, fit - 1)
           ELSE fit : fit \in {fit0} })

\* a hop that leaves the links to the predecessor as they were
HopPrev_keep(bk, free, fit) == bk

\* InsertObject, lines 266-270: the links to the predecessor of the occupant
HopPrev(bk, free, fit) ==
    IF bk[fit].prev_delta_ # NULL_DELTA
    THEN [bk EXCEPT ![fit - bk[fit].prev_delta_].next_delta_ = @ + (free - fit),
                    ![fit].prev_delta_ = bk[free].prev_delta_,
                    ![free].prev_delta_ = bk[fit].prev_delta_ + (free - fit)]
    ELSE bk

\* InsertObject, lines 271-275: the links to the successor of the occupant
HopNext(bk, free, fit) ==
    IF bk[fit].next_delta_ # NULL_DELTA
    THEN [bk EXCEPT ![fit + bk[fit].next_delta_].prev_delta_ = @ - (free - fit),
                    ![fit].next_delta_ = bk[free].next_delta_,
                    ![free].next_delta_ = bk[fit].next_delta_ - (free - fit)]
    ELSE bk

\* a hop that leaves first_delta_ of the occupant's home as it was
HopFirst_keep(bk, free, fit) == bk

\* InsertObject, lines 276-280: first_delta_ of the occupant's home
HopFirst(bk, free, fit) ==
    IF fit = bk[fit].object_bucket_ + bk[bk[fit].object_bucket_].first_delta_
    THEN [bk EXCEPT ![bk[fit].object_bucket_].first_delta_ = free - bk[fit].object_bucket_]
    ELSE bk

\* InsertObject, lines 281-283: the three std::swap calls
HopSwap(bk, free, fit) ==
    [bk EXCEPT ![fit].object_it_ = bk[free].object_it_,
               ![free].object_it_ = bk[fit].object_it_,
               ![fit].object_const_it_ = bk[free].object_const_it_,
               ![free].object_const_it_ = bk[fit].object_const_it_,
               ![fit].object_bucket_ = bk[free].object_bucket_,
               ![free].object_bucket_ = bk[fit].object_bucket_]

\* InsertObject, lines 266-283: move the occupant of fit to the empty bucket
\* free and repair its chain links
Hop(bk, free, fit) ==
    Only({ HopSwap(b3, free, fit) :
           b3 \in { HopFirst(b2, free, fit) :
                    b2 \in { HopNext(b1, free, fit) :
                             b1 \in {HopPrev(bk, free, fit)} } } })

\* a hop loop that leaves the free bucket where the probe found it
HopLoop_none(bk0, nsize, start, free0) == [buckets_ |-> bk0, bucket |-> free0]

\* InsertObject, lines 251-285: hop the free bucket down until it lies in
\* the neighbourhood of start; bucket = end when no occupant can move
RECURSIVE HopLoop(_, _, _, _)
HopLoop(bk0, nsize, start, free0) ==
    Only({ IF free < start \/ nsize <= free - start
           THEN Only({ IF fit = 0 \/ (free - fit) + 1 >= nsize
                       THEN [buckets_ |-> bk, bucket |-> Size(bk)]
                       ELSE HopLoop(Hop(bk, free, fit - 1), nsize, start, fit - 1) :
                       fit \in {FitBucket(bk, nsize, free, free)} })
           ELSE [buckets_ |-> bk, bucket |-> free] :
           bk \in {bk0}, free \in {free0} })

\* InsertObject, lines 251-285: the hops the loop makes, in turn: the table
\* at the head of the turn, the free bucket and the bucket whose occupant moves
RECURSIVE HopMoves(_, _, _, _)
HopMoves(bk0, nsize, start, free0) ==
    Only({ IF free < start \/ nsize <= free - start
           THEN Only({ IF fit = 0 \/ (free - fit) + 1 >= nsize
                       THEN <<>>
                       ELSE <<[buckets_ |-> bk, free |-> free, fit |-> fit - 1]>>
                            \o HopMoves(Hop(bk, free, fit - 1), nsize, start, fit - 1) :
                       fit \in {FitBucket(bk, nsize, free, free)} })
           ELSE <<>> :
           bk \in {bk0}, free \in {free0} })

\* InsertObject, lines 292-296: down from free to just above the nearest
\* lower bucket of the same home, or to start
RECURSIVE PreviousBucket(_, _, _, _)
PreviousBucket(bk, start, free, previous0) ==
    Only({ IF /\ previous # start
              /\ bk[previous - 1].object_bucket_ # bk[free].object_bucket_
           THEN PreviousBucket(bk, start, free, previous - 1)
           ELSE previous : previous \in {previous0} })

\* InsertObject, lines 297-313: splice free into the chain of start, after
\* the bucket below previous or at the head
Splice(bk, start, free, previous) ==
    IF previous # start
    THEN IF bk[previous - 1].next_delta_ # NULL_DELTA
         THEN [bk EXCEPT
                 ![(previous - 1) + bk[previous - 1].next_delta_].prev_delta_ =
                     ((previous - 1) + bk[previous - 1].next_delta_) - free,
                 ![free].next_delta_ =
                     ((previous - 1) + bk[previous - 1].next_delta_) - free,
                 ![previous - 1].next_delta_ = free - (previous - 1),
                 ![free].prev_delta_ = free - (previous - 1)]
         ELSE [bk EXCEPT ![previous - 1].next_delta_ = free - (previous - 1),
                         ![free].prev_delta_ = free - (previous - 1)]
    ELSE IF bk[start].first_delta_ # NULL_DELTA
         THEN [bk EXCEPT
                 ![start + bk[start].first_delta_].prev_delta_ =
                     (start + bk[start].first_delta_) - free,
                 ![free].next_delta_ = (start + bk[start].first_delta_) - free,
                 ![start].first_delta_ = free - start]
         ELSE [bk EXCEPT ![start].first_delta_ = free - start]

\* InsertObject, lines 289-313: install the entry in free and splice free
\* into the chain of start
Install(bk, start, free, it) ==
    Only({ Splice(b0, start, free, PreviousBucket(b0, start, free, free)) :
           b0 \in { [bk EXCEPT ![free].object_it_ = it,
                               ![free].object_const_it_ = it,
                               ![free].object_bucket_ = start] } })

\* InsertObject that installs the entry in the free bucket the probe found
\* when the hop loop finds no occupant to move
InsertObject_far(m, it) ==
    Only({ IF free_bucket = Size(bk)
           THEN [buckets_ |-> bk, bucket |-> Size(bk)]
           ELSE Only({ IF h.bucket = Size(bk) \/ h.bucket < start_bucket
                       THEN [buckets_ |-> Install(bk, start_bucket, free_bucket, it),
                             bucket |-> free_bucket]
                       ELSE [buckets_ |-> Install(h.buckets_, start_bucket, h.bucket, it),
                             bucket |-> h.bucket] :
                       h \in {HopLoop(bk, m.neighbourhood_size_, start_bucket, free_bucket)} }) :
           bk \in {m.buckets_},
           start_bucket \in {GetStartBucket(m, Deref(m.objects_, it).first)},
           free_bucket \in {FreeBucket(m.buckets_,
                                       GetStartBucket(m, Deref(m.objects_, it).first))} })

\* InsertObject: the table afterwards and the bucket returned (end = failure)
InsertObject(m, it) ==
    Only({ IF free_bucket = Size(bk)
           THEN [buckets_ |-> bk, bucket |-> Size(bk)]
           ELSE Only({ IF h.bucket = Size(bk) \/ h.bucket < start_bucket
                       THEN [buckets_ |-> h.buckets_, bucket |-> Size(bk)]
                       ELSE [buckets_ |-> Install(h.buckets_, start_bucket, h.bucket, it),
                             bucket |-> h.bucket] :
                       h \in {HopLoop(bk, m.neighbourhood_size_, start_bucket, free_bucket)} }) :
           bk \in {m.buckets_},
           start_bucket \in {GetStartBucket(m, Deref(m.objects_, it).first)},
           free_bucket \in {FreeBucket(m.buckets_,
                                       GetStartBucket(m, Deref(m.objects_, it).first))} })

\* the entries the loop of Reallocate has placed so far
NumPlaced(bk) == Cardinality({i \in DOMAIN bk : bk[i].object_bucket_ # EMPTY_BUCKET})

\* Reallocate, lines 223-231: place every entry of the list, front first
RECURSIVE PlaceAll(_, _, _, _, _)
PlaceAll(objs, bk0, nsize, hash, i) ==
    IF i > Len(objs)
    THEN [buckets_ |-> bk0, ok |-> TRUE]
    ELSE Only({ IF r.bucket = Size(r.buckets_)
                THEN [buckets_ |-> r.buckets_, ok |-> FALSE]
                ELSE PlaceAll(objs, r.buckets_, nsize, hash, i + 1) :
                r \in {InsertObject(Map(objs, bk0, nsize, hash), objs[i].id)} })

\* Reallocate that moves the entries into new list nodes
Reallocate_copy(m, new_capacity, new_neighbourhood_size) ==
    IF /\ new_capacity <= Size(m.buckets_)
       /\ new_neighbourhood_size <= m.neighbourhood_size_
    THEN [map |-> m, ok |-> FALSE]
    ELSE Only({ [map |-> Given(Map(x[1], x[2].buckets_, new_neighbourhood_size, m.hasher_),
                                 m.alloc_),
                       ok |-> x[2].ok] :
                x \in { <<objs, PlaceAll(objs, Assign(new_capacity),
                                         new_neighbourhood_size, m.hasher_, 1)>> :
                        objs \in {[i \in 1 .. Len(m.objects_) |->
                                      [m.objects_[i] EXCEPT !.id = i - 1]]} } })

\* Reallocate: the container afterwards and the bool returned
Reallocate(m, new_capacity, new_neighbourhood_size) ==
    IF /\ new_capacity <= Size(m.buckets_)
       /\ new_neighbourhood_size <= m.neighbourhood_size_
    THEN [map |-> m, ok |-> FALSE]
    ELSE Only({ [map |-> Given(Map(m.objects_, r.buckets_, new_neighbourhood_size, m.hasher_),
                                 m.alloc_),
                       ok |-> r.ok] :
                r \in {PlaceAll(m.objects_, Assign(new_capacity),
                                new_neighbourhood_size, m.hasher_, 1)} })

\* a first attempt that grows the neighbourhood along with the capacity
FirstAttempt_both(m) ==
    IF Len(m.objects_) >= Size(m.buckets_)
    THEN Reallocate(m, Size(m.buckets_) * size_modifier_,
                    m.neighbourhood_size_ * neighbourhood_modifier_)
    ELSE [map |-> m, ok |-> FALSE]

\* HandleCollision, lines 198-200: the first attempt, made when the entry
\* count has reached the capacity
FirstAttempt(m) ==
    IF Len(m.objects_) >= Size(m.buckets_)
    THEN Reallocate(m, Size(m.buckets_) * size_modifier_, m.neighbourhood_size_)
    ELSE [map |-> m, ok |-> FALSE]

\* an attempt that grows nothing
NextAttempt_same(m) == Reallocate(m, Size(m.buckets_), m.neighbourhood_size_)

\* HandleCollision, lines 202-206: one attempt of the while loop
NextAttempt(m) ==
    Reallocate(m,
               IF \/ m.neighbourhood_size_ * neighbourhood_modifier_ >= Size(m.buckets_)
                  \/ Len(m.objects_) >= Size(m.buckets_)
               THEN Size(m.buckets_) * size_modifier_
               ELSE Size(m.buckets_),
               m.neighbourhood_size_ * neighbourhood_modifier_)

\* HandleCollision, lines 201-207: while (!handle)
RECURSIVE CollisionLoop(_)
CollisionLoop(r0) ==
    Only({ IF r.ok THEN r.map ELSE CollisionLoop(Only({NextAttempt(m) : m \in {r.map}})) :
           r \in {r0} })

HandleCollision(m0) == CollisionLoop(Only({FirstAttempt(m) : m \in {m0}}))

\* Unlink that cuts the chain after the predecessor instead of relinking it
Unlink_cut(bk, object_bucket) ==
    IF bk[object_bucket].prev_delta_ # NULL_DELTA
    THEN [bk EXCEPT
            ![object_bucket - bk[object_bucket].prev_delta_].next_delta_ = NULL_DELTA]
    ELSE IF bk[object_bucket].next_delta_ # NULL_DELTA
         THEN [bk EXCEPT
                 ![bk[object_bucket].object_bucket_].first_delta_ =
                     (object_bucket + bk[object_bucket].next_delta_)
                         - bk[object_bucket].object_bucket_,
                 ![object_bucket + bk[object_bucket].next_delta_].prev_delta_ = NULL_DELTA]
         ELSE [bk EXCEPT ![bk[object_bucket].object_bucket_].first_delta_ = NULL_DELTA]

\* EraseObject, lines 348-366: splice the bucket out of its chain
Unlink(bk, object_bucket) ==
    IF bk[object_bucket].prev_delta_ # NULL_DELTA
    THEN IF bk[object_bucket].next_delta_ # NULL_DELTA
         THEN [bk EXCEPT
                 ![object_bucket - bk[object_bucket].prev_delta_].next_delta_ =
                     bk[object_bucket].next_delta_ + bk[object_bucket].prev_delta_,
                 ![object_bucket + bk[object_bucket].next_delta_].prev_delta_ =
                     bk[object_bucket].next_delta_ + bk[object_bucket].prev_delta_]
         ELSE [bk EXCEPT
                 ![object_bucket - bk[object_bucket].prev_delta_].next_delta_ = NULL_DELTA]
    ELSE IF bk[object_bucket].next_delta_ # NULL_DELTA
         THEN [bk EXCEPT
                 ![bk[object_bucket].object_bucket_].first_delta_ =
                     (object_bucket + bk[object_bucket].next_delta_)
                         - bk[object_bucket].object_bucket_,
                 ![object_bucket + bk[object_bucket].next_delta_].prev_delta_ = NULL_DELTA]
         ELSE [bk EXCEPT ![bk[object_bucket].object_bucket_].first_delta_ = NULL_DELTA]

\* EraseObject that leaves the bucket marked occupied
EraseObject_keep(bk, object_bucket) ==
    [Unlink(bk, object_bucket) EXCEPT ![object_bucket].next_delta_ = NULL_DELTA,
                                      ![object_bucket].prev_delta_ = NULL_DELTA]

\* EraseObject: splice the bucket out of its chain and mark it empty
EraseObject(bk, object_bucket) ==
    [Unlink(bk, object_bucket) EXCEPT ![object_bucket].next_delta_ = NULL_DELTA,
                                      ![object_bucket].prev_delta_ = NULL_DELTA,
                                      ![object_bucket].object_bucket_ = EMPTY_BUCKET]

\* ------------------------------------------------------- public operations
\* each yields the container afterwards (map) and what the call returns (it)

\* Hash(), the default argument of the constructors, hash being a hasher of
\* the type: the same function when Hash is a function object without state
\* (std::hash<KeyType>, Hasher of tests/test.cpp), the empty function when
\* Hash is a std::function (stupid_map of tests/test.cpp)
DefaultHash(hash) == {hash, NoHash}

\* HashMap(hasher)
Empty(hash) == Map(<<>>, Assign(min_neighbourhood_size_), min_neighbourhood_size_, hash)

\* clear that forgets to reset neighbourhood_size_
clear_keep(m) ==
    Map(<<>>, Assign(min_neighbourhood_size_), m.neighbourhood_size_, m.hasher_)

clear(m) ==
    Map(<<>>, Assign(min_neighbourhood_size_), min_neighbourhood_size_, m.hasher_)

size(m) == Len(m.objects_)

\* insert, lines 80-86: the key was not found
InsertNew(m, key, val) ==
    Only({ IF r.bucket = Size(m.buckets_)
           THEN Only({ [map |-> m2, it |-> m2.buckets_[FindObject(m2, key)].object_it_] :
                       m2 \in {HandleCollision(
                                  Given(Map(objs, r.buckets_, m.neighbourhood_size_,
                                            m.hasher_), Rest(m.alloc_)))} })
           ELSE [map |-> Given(Map(objs, r.buckets_, m.neighbourhood_size_, m.hasher_),
                               Rest(m.alloc_)),
                 it |-> r.buckets_[r.bucket].object_it_] :
           <<objs, r>> \in
               { <<o, InsertObject(Map(o, m.buckets_, m.neighbourhood_size_, m.hasher_), o[1].id)>> :
                 o \in {PushFront(m, key, val)} } })

\* insert that overwrites the value of a key it finds
insert_overwrite(m0, key, val) ==
    Only({ IF it # Size(m.buckets_)
           THEN [map |-> [m EXCEPT !.objects_ =
                             [i \in 1 .. Len(m.objects_) |->
                                 IF m.objects_[i].id = m.buckets_[it].object_it_
                                 THEN [m.objects_[i] EXCEPT !.second = val]
                                 ELSE m.objects_[i]]],
                 it |-> m.buckets_[it].object_it_]
           ELSE InsertNew(m, key, val) :
           <<m, it>> \in { <<x, FindObject(x, key)>> : x \in {m0} } })

\* insert that does not look the key up first
insert_blind(m0, key, val) == InsertNew(m0, key, val)

insert(m0, key, val) ==
    Only({ IF it # Size(m.buckets_)
           THEN [map |-> m, it |-> m.buckets_[it].object_it_]
           ELSE InsertNew(m, key, val) :
           <<m, it>> \in { <<x, FindObject(x, key)>> : x \in {m0} } })

\* an erase that gives the table back when it removes the last entry: the
\* container returns to the dimensions it was constructed with
erase_shrink(m0, key) ==
    Only({ IF it = Size(m.buckets_)
           THEN m
           ELSE IF Len(m.objects_) = 1
                THEN Empty(m.hasher_)
                ELSE Map(ListErase(m.objects_, m.buckets_[it].object_const_it_),
                         EraseObject(m.buckets_, it),
                         m.neighbourhood_size_, m.hasher_) :
           <<m, it>> \in { <<x, FindObject(x, key)>> : x \in {m0} } })

erase(m0, key) ==
    Only({ IF it = Size(m.buckets_)
           THEN m
           ELSE Map(ListErase(m.objects_, m.buckets_[it].object_const_it_),
                    EraseObject(m.buckets_, it),
                    m.neighbourhood_size_, m.hasher_) :
           <<m, it>> \in { <<x, FindObject(x, key)>> : x \in {m0} } })

find(m0, key) ==
    Only({ IF it = Size(m.buckets_) THEN ListEnd ELSE m.buckets_[it].object_it_ :
           <<m, it>> \in { <<x, FindObject(x, key)>> : x \in {m0} } })

\* at that returns ValueType{} for an absent key instead of throwing
at_default(m0, key) ==
    Only({ IF it = Size(m.buckets_)
           THEN [thrown |-> "", value |-> 0]
           ELSE [thrown |-> "",
                 value |-> Deref(m.objects_, m.buckets_[it].object_const_it_).second] :
           <<m, it>> \in { <<x, FindObject(x, key)>> : x \in {m0} } })

\* at: the value, or the exception thrown
at(m0, key) ==
    Only({ IF it = Size(m.buckets_)
           THEN [thrown |-> "out_of_range", value |-> None]
           ELSE [thrown |-> "",
                 value |-> Deref(m.objects_, m.buckets_[it].object_const_it_).second] :
           <<m, it>> \in { <<x, FindObject(x, key)>> : x \in {m0} } })

\* operator[] that inserts a value other than ValueType{}
subscript_one(m, key) == insert(m, key, 1)

\* operator[]: insert({key, ValueType{}}) and a reference to it->second
subscript(m, key) == insert(m, key, 0)

\* a store through a reference or iterator to the node it
Store(objs, it, val) ==
    [i \in 1 .. Len(objs) |->
        IF objs[i].id = it THEN [objs[i] EXCEPT !.second = val] ELSE objs[i]]

\* HashMap(const HashMap& other), lines 43-45: insert(*it) for every entry of
\* the container copied from, front first
RECURSIVE CopyRange(_, _, _)
CopyRange(objs, i, m0) ==
    IF i > Len(objs)
    THEN m0
    ELSE CopyRange(objs, i + 1,
             Only({ r.map : r \in {insert(m0, objs[i].first, objs[i].second)} }))

\* a copy that takes the keys and leaves the values behind
copy_keys(from) ==
    CopyRange([i \in 1 .. Len(from.objects_) |-> [from.objects_[i] EXCEPT !.second = 0]],
              1, Given(Empty(from.hasher_), from.alloc_))

\* a copy constructor that takes over the neighbourhood size and keeps the
\* capacity of the empty container
copy_narrow(from) ==
    Only({ CopyRange(from.objects_, 1, r.map) :
           r \in {Reallocate(Given(Empty(from.hasher_), from.alloc_),
                              min_neighbourhood_size_,
                              from.neighbourhood_size_)} })

\* HashMap(const HashMap& other): HashMap(other.hasher_), Reallocate to the
\* dimensions of the container copied from, then the inserts
copy(from) ==
    Only({ CopyRange(from.objects_, 1, r.map) :
           r \in {Reallocate(Given(Empty(from.hasher_), from.alloc_),
                              Size(from.buckets_),
                              from.neighbourhood_size_)} })

\* Swap: the members of the two containers change places
Swap(a, b) == <<b, a>>

\* operator=(const HashMap& other): HashMap map(other); Swap(map)
assign(m, from) == Only({ Swap(m, c)[1] : c \in {copy(from)} })

\* ---------------------------------------------------- what a caller observes
\* the value find(key) designates, None when find returns end() or throws
Lookup(m, key) ==
    IF ~Callable(m.hasher_) THEN None
    ELSE Only({ IF it = ListEnd THEN None ELSE Deref(m.objects_, it).second :
                it \in {find(m, key)} })

Mapping(m) == [k \in Keys |-> Lookup(m, k)]

\* iterating begin() .. end(): the (key, value) pairs in list order
Iterate(m) == [i \in 1 .. Len(m.objects_) |-> <<m.objects_[i].first, m.objects_[i].second>>]

\* ------------------------------------------------------------ state machine
M == Map(objects_, buckets_, neighbourhood_size_, hasher_)

Becomes(m) ==
    /\ objects_' = m.objects_
    /\ buckets_' = m.buckets_
    /\ neighbourhood_size_' = m.neighbourhood_size_

\* the record of a public operation applied to container m: its arguments,
\* what it returned or threw, and the container and reference map before it
Did(op, m, key, val, it, value, thrown) ==
    [op |-> op, key |-> key, val |-> val, it |-> it, value |-> value, thrown |-> thrown,
     size0 |-> size(m), before |-> Mapping(m),
     where0 |-> [k \in Keys |-> IF Callable(m.hasher_) THEN FindObject(m, k)
                                 ELSE Size(m.buckets_)],
     capacity0 |-> Size(m.buckets_), nsize0 |-> m.neighbourhood_size_,
     ref0 |-> ref, made0 |-> made, placing |-> <<>>]

\* the record of a call of InsertObject: the table and the neighbourhood size
\* it found and the list node it was to place
Placing(bk, nsize, it) == <<[buckets_ |-> bk, neighbourhood_size_ |-> nsize, it |-> it]>>

\* HashMap(begin, end, hasher), lines 32-34: insert(*begin) for every element
\* of the range; c is the container so far with the handles the inserts returned
RECURSIVE InsertRange(_, _, _)
InsertRange(list, i, c0) ==
    IF i > Len(list)
    THEN c0
    ELSE InsertRange(list, i + 1,
             Only({ [map |-> r.map,
                     made |-> IF c.made[list[i][1]] = NoIter
                              THEN [c.made EXCEPT ![list[i][1]] = r.it]
                              ELSE c.made] :
                    <<c, r>> \in { <<x, insert(x.map, list[i][1], list[i][2])>> :
                                   x \in {c0} } }))

\* the ranges a container is constructed from: the first n keys, in order
InitList(n) == [i \in 1 .. n |-> <<i - 1, i % (MaxVal + 1)>>]

\* HashMap(hasher): the empty container, for any hasher
Init ==
    /\ hasher_ \in [Keys -> HashValues]
    /\ objects_ = Empty(hasher_).objects_
    /\ buckets_ = Empty(hasher_).buckets_
    /\ neighbourhood_size_ = Empty(hasher_).neighbourhood_size_
    /\ made = [k \in Keys |-> NoIter]
    /\ ref = [k \in Keys |-> None]
    /\ ret = Did("HashMap", Empty(hasher_), None, None, NoIter, None, "")
    /\ ops = 0
    /\ pc = "idle"
    /\ other = <<>>
    /\ ref2 = [k \in Keys |-> None]

\* HashMap(begin, end, hasher): the delegated HashMap(hasher), then the inserts
Construct(n) ==
    /\ ret.op = "HashMap"
    /\ ops = 0
    /\ \E c \in {InsertRange(InitList(n), 1, [map |-> M, made |-> made])} :
          /\ Becomes(c.map)
          /\ made' = c.made
    /\ ref' = [k \in Keys |-> IF k < n THEN InitList(n)[k + 1][2] ELSE None]
    /\ ret' = Did("construct", M, None, None, NoIter, None, "")
    /\ UNCHANGED <<hasher_, ops, pc, other, ref2>>

\* hasher_(key) throws std::bad_function_call out of FindObject, the first
\* statement of insert, erase, find, at and operator[]: nothing is changed
BadFunctionCall(op, k, v) ==
    /\ ret' = Did(op, M, k, v, NoIter, None, "bad_function_call")
    /\ ops' = ops + 1
    /\ UNCHANGED <<objects_, buckets_, neighbourhood_size_, hasher_, ref, made, pc,
                   other, ref2>>

\* the same for the second container
OtherBadFunctionCall(op, k, v) ==
    /\ Len(other) = 1
    /\ ~Callable(other[1].hasher_)
    /\ BadFunctionCall(op, k, v)

Insert(k, v) ==
    /\ ops < MaxOps
    /\ IF ~Callable(hasher_) THEN BadFunctionCall("insert", k, v)
       ELSE /\ \E h \in AllocOrders(Stale, 1) : \E r \in {insert(Given(M, h), k, v)} :
                  /\ Becomes(r.map)
                  /\ made' = IF ref[k] = None THEN [made EXCEPT ![k] = r.it] ELSE made
                  /\ ret' = Did("insert", M, k, v, r.it, None, "")
            /\ ref' = IF ref[k] = None THEN [ref EXCEPT ![k] = v] ELSE ref
            /\ ops' = ops + 1
            /\ UNCHANGED <<hasher_, pc, other, ref2>>

Erase(k) ==
    /\ ops < MaxOps
    /\ IF ~Callable(hasher_) THEN BadFunctionCall("erase", k, None)
       ELSE /\ Becomes(erase(M, k))
            /\ ref' = [ref EXCEPT ![k] = None]
            /\ made' = [made EXCEPT ![k] = NoIter]
            /\ ret' = Did("erase", M, k, None, NoIter, None, "")
            /\ ops' = ops + 1
            /\ UNCHANGED <<hasher_, pc, other, ref2>>

Find(k) ==
    /\ ops < MaxOps
    /\ IF ~Callable(hasher_) THEN BadFunctionCall("find", k, None)
       ELSE /\ ret' = Did("find", M, k, None, find(M, k), None, "")
            /\ ops' = ops + 1
            /\ UNCHANGED <<objects_, buckets_, neighbourhood_size_, hasher_, ref, made, pc,
                           other, ref2>>

At(k) ==
    /\ ops < MaxOps
    /\ IF ~Callable(hasher_) THEN BadFunctionCall("at", k, None)
       ELSE /\ \E r \in {at(M, k)} :
                  ret' = Did("at", M, k, None, NoIter, r.value, r.thrown)
            /\ ops' = ops + 1
            /\ UNCHANGED <<objects_, buckets_, neighbourhood_size_, hasher_, ref, made, pc,
                           other, ref2>>

\* mp[k], read
Subscript(k) ==
    /\ ops < MaxOps
    /\ IF ~Callable(hasher_) THEN BadFunctionCall("subscript", k, None)
       ELSE /\ \E h \in AllocOrders(Stale, 1) : \E r \in {subscript(Given(M, h), k)} :
                  /\ Becomes(r.map)
                  /\ made' = IF ref[k] = None THEN [made EXCEPT ![k] = r.it] ELSE made
                  /\ ret' = Did("subscript", M, k, None, r.it,
                                Deref(r.map.objects_, r.it).second, "")
            /\ ref' = IF ref[k] = None THEN [ref EXCEPT ![k] = 0] ELSE ref
            /\ ops' = ops + 1
            /\ UNCHANGED <<hasher_, pc, other, ref2>>

\* mp[k] = v
SubscriptAssign(k, v) ==
    /\ ops < MaxOps
    /\ IF ~Callable(hasher_) THEN BadFunctionCall("assign", k, v)
       ELSE /\ \E h \in AllocOrders(Stale, 1) : \E r \in {subscript(Given(M, h), k)} :
                  /\ Becomes([r.map EXCEPT !.objects_ = Store(r.map.objects_, r.it, v)])
                  /\ made' = IF ref[k] = None THEN [made EXCEPT ![k] = r.it] ELSE made
                  /\ ret' = Did("assign", M, k, v, r.it, None, "")
            /\ ref' = [ref EXCEPT ![k] = v]
            /\ ops' = ops + 1
            /\ UNCHANGED <<hasher_, pc, other, ref2>>

Clear ==
    /\ ops < MaxOps
    /\ Becomes(clear(M))
    /\ ref' = [k \in Keys |-> None]
    /\ made' = [k \in Keys |-> NoIter]
    /\ ret' = Did("clear", M, None, None, NoIter, None, "")
    /\ ops' = ops + 1
    /\ UNCHANGED <<hasher_, pc, other, ref2>>

Next ==
    \/ \E n \in 1 .. NumKeys : Construct(n)
    \/ \E k \in Keys, v \in Values : Insert(k, v)
    \/ \E k \in Keys : Erase(k)
    \/ \E k \in Keys : Find(k)
    \/ \E k \in Keys : At(k)
    \/ \E k \in Keys : Subscript(k)
    \/ \E k \in Keys, v \in Values : SubscriptAssign(k, v)
    \/ Clear

Spec == Init /\ [][Next]_vars


\* ------------------------------------------------------- a second container
\* The container and a second one, made from it by the copy or the move
\* constructor, each with its reference map and its hasher: at most one is
\* made, and the assignments and the operations on it count among the MaxOps.

\* HashMap other(*this)
Copy ==
    /\ other = <<>>
    /\ \E h \in AllocOrders(Stale, Len(objects_)) : \E c \in {copy(Given(M, h))} :
          other' = <<Given(c, <<>>)>>
    /\ ref2' = ref
    /\ ret' = Did("copy", M, None, None, NoIter, None, "")
    /\ UNCHANGED <<objects_, buckets_, neighbourhood_size_, hasher_, ref, made, ops, pc>>

\* *this = other
CopyAssign ==
    /\ ops < MaxOps
    /\ Len(other) = 1
    /\ \E h \in AllocOrders(Stale, Len(other[1].objects_)) :
       \E c \in {assign(M, Given(other[1], h))} :
          /\ Becomes(c)
          /\ hasher_' = c.hasher_
          /\ made' = [k \in Keys |-> IF ref2[k] = None THEN NoIter ELSE find(c, k)]
    /\ ref' = ref2
    /\ ret' = Did("operator=", M, None, None, NoIter, None, "")
    /\ ops' = ops + 1
    /\ UNCHANGED <<pc, other, ref2>>

\* HashMap other(std::move(*this)): the delegated HashMap(), then Swap; the
\* new container has the list nodes, the table and the hasher of this one,
\* which is left empty with the default hasher of its type
Move ==
    /\ other = <<>>
    /\ \E d \in DefaultHash(hasher_) : \E s \in {Swap(Empty(d), M)} :
          /\ other' = <<s[1]>>
          /\ Becomes(s[2])
          /\ hasher_' = s[2].hasher_
    /\ ref2' = ref
    /\ ref' = [k \in Keys |-> None]
    /\ made' = [k \in Keys |-> NoIter]
    /\ ret' = Did("move", M, None, None, NoIter, None, "")
    /\ UNCHANGED <<ops, pc>>

\* *this = std::move(other): clear(), then Swap(other)
MoveAssign ==
    /\ ops < MaxOps
    /\ Len(other) = 1
    /\ \E s \in {Swap(clear(M), other[1])} :
          /\ Becomes(s[1])
          /\ hasher_' = s[1].hasher_
          /\ other' = <<s[2]>>
          /\ made' = [k \in Keys |-> IF ref2[k] = None THEN NoIter ELSE find(s[1], k)]
    /\ ref' = ref2
    /\ ref2' = [k \in Keys |-> None]
    /\ ret' = Did("operator=&&", M, None, None, NoIter, None, "")
    /\ ops' = ops + 1
    /\ UNCHANGED pc

\* other.insert({k, v})
OtherInsert(k, v) ==
    /\ ops < MaxOps
    /\ Len(other) = 1
    /\ IF ~Callable(other[1].hasher_) THEN OtherBadFunctionCall("other.insert", k, v)
       ELSE /\ \E h \in AllocOrders(Stale, 1) : \E r \in {insert(Given(other[1], h), k, v)} :
                  other' = <<Given(r.map, <<>>)>>
            /\ ref2' = IF ref2[k] = None THEN [ref2 EXCEPT ![k] = v] ELSE ref2
            /\ ret' = Did("other.insert", M, k, v, NoIter, None, "")
            /\ ops' = ops + 1
            /\ UNCHANGED <<objects_, buckets_, neighbourhood_size_, hasher_, ref, made, pc>>

\* other.erase(k)
OtherErase(k) ==
    /\ ops < MaxOps
    /\ Len(other) = 1
    /\ IF ~Callable(other[1].hasher_) THEN OtherBadFunctionCall("other.erase", k, None)
       ELSE /\ \E c \in {erase(other[1], k)} : other' = <<c>>
            /\ ref2' = [ref2 EXCEPT ![k] = None]
            /\ ret' = Did("other.erase", M, k, None, NoIter, None, "")
            /\ ops' = ops + 1
            /\ UNCHANGED <<objects_, buckets_, neighbourhood_size_, hasher_, ref, made, pc>>

\* other[k] = v
OtherSubscriptAssign(k, v) ==
    /\ ops < MaxOps
    /\ Len(other) = 1
    /\ IF ~Callable(other[1].hasher_) THEN OtherBadFunctionCall("other.assign", k, v)
       ELSE /\ \E h \in AllocOrders(Stale, 1) : \E r \in {subscript(Given(other[1], h), k)} :
                  other' = <<[Given(r.map, <<>>) EXCEPT
                                !.objects_ = Store(r.map.objects_, r.it, v)]>>
            /\ ref2' = [ref2 EXCEPT ![k] = v]
            /\ ret' = Did("other.assign", M, k, v, NoIter, None, "")
            /\ ops' = ops + 1
            /\ UNCHANGED <<objects_, buckets_, neighbourhood_size_, hasher_, ref, made, pc>>

\* other.clear()
OtherClear ==
    /\ ops < MaxOps
    /\ Len(other) = 1
    /\ \E c \in {clear(other[1])} : other' = <<c>>
    /\ ref2' = [k \in Keys |-> None]
    /\ ret' = Did("other.clear", M, None, None, NoIter, None, "")
    /\ ops' = ops + 1
    /\ UNCHANGED <<objects_, buckets_, neighbourhood_size_, hasher_, ref, made, pc>>

NextCopy ==
    \/ \E n \in 1 .. NumKeys : Construct(n)
    \/ \E k \in Keys, v \in Values : Insert(k, v)
    \/ \E k \in Keys : Erase(k)
    \/ \E k \in Keys : Subscript(k)
    \/ \E k \in Keys, v \in Values : SubscriptAssign(k, v)
    \/ Clear
    \/ Copy
    \/ CopyAssign
    \/ Move
    \/ MoveAssign
    \/ \E k \in Keys, v \in Values : OtherInsert(k, v)
    \/ \E k \in Keys : OtherErase(k)
    \/ \E k \in Keys, v \in Values : OtherSubscriptAssign(k, v)
    \/ OtherClear

SpecCopy == Init /\ [][NextCopy]_vars

\* ------------------------------------------------- insert, attempt by attempt
\* The same insert with every Reallocate that HandleCollision calls a step of
\* its own.  pc is "idle" between calls, "HandleCollision" when InsertObject
\* returned end and the first attempt is due, "while" inside the loop.

\* insert returns: the handle of the entry of ret.key
Return ==
    /\ pc' = "idle"
    /\ \E it \in {buckets_'[FindObject(Map(objects_', buckets_', neighbourhood_size_', hasher_),
                                       ret.key)].object_it_} :
          /\ made' = [made EXCEPT ![ret.key] = it]
          /\ ret' = [ret EXCEPT !.it = it]

\* an insert that calls HandleCollision also when InsertObject placed the
\* entry and the entry count has reached the capacity
InsertBegin_load(k, v) ==
    /\ pc = "idle"
    /\ \E b \in {FindObject(M, k)} :
          IF b # Size(buckets_)
          THEN /\ ret' = Did("insert", M, k, v, buckets_[b].object_it_, None, "")
               /\ UNCHANGED <<objects_, buckets_, neighbourhood_size_, ref, made, pc>>
          ELSE \E h \in AllocOrders(Stale, 1) : \E objs \in {PushFront(Given(M, h), k, v)} :
               \E r \in {InsertObject(Map(objs, buckets_, neighbourhood_size_, hasher_), objs[1].id)} :
                  /\ Becomes(Map(objs, r.buckets_, neighbourhood_size_, hasher_))
                  /\ ref' = [ref EXCEPT ![k] = v]
                  /\ IF r.bucket = Size(buckets_) \/ Len(objs) >= Size(buckets_)
                     THEN /\ pc' = "HandleCollision"
                          /\ made' = made
                          /\ ret' = [Did("insert", M, k, v, NoIter, None, "")
                                        EXCEPT !.placing = Placing(buckets_,
                                                   neighbourhood_size_, objs[1].id)]
                     ELSE /\ pc' = "idle"
                          /\ made' = [made EXCEPT ![k] = objs[1].id]
                          /\ ret' = [Did("insert", M, k, v, objs[1].id, None, "")
                                        EXCEPT !.placing = Placing(buckets_,
                                                   neighbourhood_size_, objs[1].id)]
    /\ UNCHANGED <<hasher_, ops, other, ref2>>

\* insert, lines 76-82: FindObject, push_front, InsertObject
InsertBegin(k, v) ==
    /\ pc = "idle"
    /\ \E b \in {FindObject(M, k)} :
          IF b # Size(buckets_)
          THEN /\ ret' = Did("insert", M, k, v, buckets_[b].object_it_, None, "")
               /\ UNCHANGED <<objects_, buckets_, neighbourhood_size_, ref, made, pc>>
          ELSE \E h \in AllocOrders(Stale, 1) : \E objs \in {PushFront(Given(M, h), k, v)} :
               \E r \in {InsertObject(Map(objs, buckets_, neighbourhood_size_, hasher_), objs[1].id)} :
                  /\ Becomes(Map(objs, r.buckets_, neighbourhood_size_, hasher_))
                  /\ ref' = [ref EXCEPT ![k] = v]
                  /\ IF r.bucket = Size(buckets_)
                     THEN /\ pc' = "HandleCollision"
                          /\ made' = made
                          /\ ret' = [Did("insert", M, k, v, NoIter, None, "")
                                        EXCEPT !.placing = Placing(buckets_,
                                                   neighbourhood_size_, objs[1].id)]
                     ELSE /\ pc' = "idle"
                          /\ made' = [made EXCEPT ![k] = objs[1].id]
                          /\ ret' = [Did("insert", M, k, v, objs[1].id, None, "")
                                        EXCEPT !.placing = Placing(buckets_,
                                                   neighbourhood_size_, objs[1].id)]
    /\ UNCHANGED <<hasher_, ops, other, ref2>>

\* HandleCollision, lines 196-200
InsertFirstAttempt ==
    /\ pc = "HandleCollision"
    /\ \E r \in {FirstAttempt(M)} :
          /\ Becomes(r.map)
          /\ IF r.ok THEN Return ELSE pc' = "while" /\ UNCHANGED <<made, ret>>
    /\ UNCHANGED <<hasher_, ref, ops, other, ref2>>

\* HandleCollision, lines 201-207: one turn of the loop
InsertNextAttempt ==
    /\ pc = "while"
    /\ \E r \in {NextAttempt(M)} :
          /\ Becomes(r.map)
          /\ IF r.ok THEN Return ELSE pc' = "while" /\ UNCHANGED <<made, ret>>
    /\ UNCHANGED <<hasher_, ref, ops, other, ref2>>

NextLive ==
    \/ \E k \in Keys : InsertBegin(k, 0)
    \/ InsertFirstAttempt
    \/ InsertNextAttempt

\* a call that has been entered keeps running: the loop takes its next turn
SpecLive ==
    /\ Init
    /\ [][NextLive]_vars
    /\ WF_vars(InsertFirstAttempt)
    /\ WF_vars(InsertNextAttempt)

\* --------------------------------------------- insert, statement by statement
\* The least absent key is inserted, time after time, under any hasher with
\* values 0 .. MaxHome, and at most MaxErase keys are erased in between.
\* Reallocate is taken apart: the assign of the new table, which can fail for
\* want of memory, and one InsertObject per step of its loop
\* (pc = "Reallocate").  Nothing is called after a std::bad_alloc.

InitSteps ==
    /\ hasher_ \in [Keys -> 0 .. MaxHome]
    /\ objects_ = Empty(hasher_).objects_
    /\ buckets_ = Empty(hasher_).buckets_
    /\ neighbourhood_size_ = Empty(hasher_).neighbourhood_size_
    /\ made = [k \in Keys |-> NoIter]
    /\ ref = [k \in Keys |-> None]
    /\ ret = Did("HashMap", Empty(hasher_), None, None, NoIter, None, "")
    /\ ops = 0
    /\ pc = "idle"
    /\ other = <<>>
    /\ ref2 = [k \in Keys |-> None]

\* insert({k, ValueType{}}) of the next key: lines 76-82
InsertNext(k) ==
    /\ ref[k] = None
    /\ \A j \in Keys : j < k => ref[j] # None
    /\ ret.thrown = ""
    /\ InsertBegin(k, 0)

\* erase(k) of a key of the container, between two inserts
EraseOne(k) ==
    /\ pc = "idle"
    /\ ret.thrown = ""
    /\ ref[k] # None
    /\ ops < MaxErase
    /\ Erase(k)

\* HandleCollision, lines 198-206, and Reallocate, lines 214-222: the
\* dimensions of the attempt and the assign of the empty table
Allocate ==
    /\ pc \in {"HandleCollision", "while"}
    /\ IF pc = "HandleCollision" /\ Len(objects_) < Size(buckets_)
       THEN /\ pc' = "while"
            /\ UNCHANGED <<buckets_, neighbourhood_size_>>
       ELSE \E r \in {IF pc = "HandleCollision" THEN FirstAttempt(M) ELSE NextAttempt(M)} :
               /\ buckets_' = Assign(Size(r.map.buckets_))
               /\ neighbourhood_size_' = r.map.neighbourhood_size_
               /\ pc' = "Reallocate"
    /\ UNCHANGED <<objects_, hasher_, ref, made, ret, ops, other, ref2>>

\* Reallocate, lines 217-221: buckets_.assign throws std::bad_alloc, which
\* HandleCollision and insert let through; the table is as it was
BadAlloc ==
    /\ \/ pc = "HandleCollision" /\ Len(objects_) >= Size(buckets_)
       \/ pc = "while"
    /\ pc' = "idle"
    /\ ret' = [ret EXCEPT !.thrown = "bad_alloc"]
    /\ UNCHANGED <<objects_, buckets_, neighbourhood_size_, hasher_, ref, made, ops,
                   other, ref2>>

\* Reallocate, lines 223-231: one turn of the loop, or its end
PlaceNext ==
    /\ pc = "Reallocate"
    /\ IF NumPlaced(buckets_) = Len(objects_)
       THEN /\ UNCHANGED <<objects_, buckets_, neighbourhood_size_>>
            /\ Return
       ELSE \E r \in {InsertObject(M, objects_[NumPlaced(buckets_) + 1].id)} :
               /\ buckets_' = r.buckets_
               /\ pc' = IF r.bucket = Size(buckets_) THEN "while" ELSE "Reallocate"
               /\ ret' = [ret EXCEPT !.placing =
                             Placing(buckets_, neighbourhood_size_,
                                     objects_[NumPlaced(buckets_) + 1].id)]
               /\ UNCHANGED <<objects_, neighbourhood_size_, made>>
    /\ UNCHANGED <<hasher_, ref, ops, other, ref2>>

NextSteps ==
    \/ \E k \in Keys : InsertNext(k)
    \/ \E k \in Keys : EraseOne(k)
    \/ Allocate
    \/ BadAlloc
    \/ PlaceNext

SpecSteps == InitSteps /\ [][NextSteps]_vars

\* ------------------------------------------ insert into a table that has grown
\* The container starts as the copy of a container that has grown and was
\* emptied by erase: the copy constructor, lines 41-46, reallocates the empty
\* container to the capacity and the neighbourhood size of the other one.
\* The least absent key is inserted, attempt by attempt, time after time.

RECURSIVE Grown(_, _)
Grown(n, times) == IF times = 0 THEN n ELSE Grown(n * size_modifier_, times - 1)

InitGrown ==
    /\ hasher_ \in [Keys -> 0 .. MaxHome]
    /\ \E i \in 0 .. MaxGrow : \E j \in 0 .. i :
          /\ objects_ = <<>>
          /\ buckets_ = Assign(Grown(min_neighbourhood_size_, i))
          /\ neighbourhood_size_ = Grown(min_neighbourhood_size_, j)
    /\ made = [k \in Keys |-> NoIter]
    /\ ref = [k \in Keys |-> None]
    /\ ret = Did("HashMap", M, None, None, NoIter, None, "")
    /\ ops = 0
    /\ pc = "idle"
    /\ other = <<>>
    /\ ref2 = [k \in Keys |-> None]

NextGrown ==
    \/ \E k \in Keys : InsertNext(k)
    \/ InsertFirstAttempt
    \/ InsertNextAttempt

SpecGrown == InitGrown /\ [][NextGrown]_vars

\* ---------------------------------------------- erase, statement by statement
\* A container is constructed from a range and keys are erased from it; erase
\* is taken in two steps, the erase from the list and the call of EraseObject.

\* erase, lines 104-108: FindObject, return for an absent key, else
\* objects_.erase(it->object_const_it_)
EraseBegin(k) ==
    /\ pc = "idle"
    /\ ops < MaxOps
    /\ \E it \in {FindObject(M, k)} :
          IF it = Size(buckets_)
          THEN UNCHANGED <<objects_, pc>>
          ELSE /\ objects_' = ListErase(objects_, buckets_[it].object_const_it_)
               /\ pc' = "EraseObject"
    /\ ref' = [ref EXCEPT ![k] = None]
    /\ made' = [made EXCEPT ![k] = NoIter]
    /\ ret' = Did("erase", M, k, None, NoIter, None, "")
    /\ ops' = ops + 1
    /\ UNCHANGED <<buckets_, neighbourhood_size_, hasher_, other, ref2>>

\* erase, line 109: EraseObject(it), it being the bucket FindObject gave
EraseEnd ==
    /\ pc = "EraseObject"
    /\ buckets_' = EraseObject(buckets_, ret.where0[ret.key])
    /\ pc' = "idle"
    /\ UNCHANGED <<objects_, neighbourhood_size_, hasher_, ref, made, ret, ops,
                   other, ref2>>

NextErase ==
    \/ \E n \in 1 .. NumKeys : Construct(n)
    \/ \E k \in Keys : EraseBegin(k)
    \/ EraseEnd

SpecErase == Init /\ [][NextErase]_vars

\* ------------------------------------------------------------------ claims
Occupied == {i \in DOMAIN buckets_ : buckets_[i].object_bucket_ # EMPTY_BUCKET}

Live == {k \in Keys : ref[k] # None}

\* the last operation reallocated the bucket table
Rehashed == Size(buckets_) # ret.capacity0 \/ neighbourhood_size_ # ret.nsize0

\* the bucket an entry of the list lies in, and its home
BucketOf(n) == CHOOSE i \in Occupied : buckets_[i].object_it_ = objects_[n].id
HomeOf(n) == buckets_[BucketOf(n)].object_bucket_

\* the last operation reallocated and an entry was hopped on the way: some
\* entry placed earlier (nearer the front of the list) lies beyond a bucket,
\* at or after its home, that holds an entry placed later
Hopped ==
    /\ Rehashed
    /\ \E a, b \in 1 .. Len(objects_) :
          a < b /\ HomeOf(a) <= BucketOf(b) /\ BucketOf(b) < BucketOf(a)

\* C1: side by side with the reference map, under any sequence of operations
\* and any hasher, find(k) is end() exactly when k is absent from the
\* reference map, otherwise it designates the entry of k whose value is the
\* reference value, and at(k) returns that value.
C1_FindAgreesWithReference ==
    \A k \in Keys :
        /\ (find(M, k) = ListEnd) <=> (ref[k] = None)
        /\ ref[k] # None =>
              /\ Deref(objects_, find(M, k)).first = k
              /\ Deref(objects_, find(M, k)).second = ref[k]
              /\ at(M, k) = [thrown |-> "", value |-> ref[k]]

\* an insert that rehashed, with keys present that hash alike and a key absent
C1_Witness ==
    /\ ret.op = "insert"
    /\ Rehashed
    /\ \E a, b \in Live : a # b /\ hasher_[a] = hasher_[b] /\ ref[a] # ref[b]
    /\ \E k \in Keys : ref[k] = None /\ find(M, k) = ListEnd

\* C2: insert(k, v2) of a key that is present returns the handle the insert
\* that created k returned, leaves the stored value as it was, and leaves
\* size unchanged.
C2_InsertPresentKeepsValue ==
    (ret.op = "insert" /\ ret.ref0[ret.key] # None) =>
        /\ ret.it = ret.made0[ret.key]
        /\ Lookup(M, ret.key) = ret.ref0[ret.key]
        /\ size(M) = ret.size0

\* insert(k, v2) of a key stored with another value v1
C2_Witness ==
    /\ ret.op = "insert"
    /\ ret.ref0[ret.key] # None
    /\ ret.val # ret.ref0[ret.key]
    /\ Lookup(M, ret.key) = ret.ref0[ret.key]

\* C3: erase(k) of a present key makes find(k) return end(), decreases size
\* by one and preserves the mapping of every other key; erase(k) of an absent
\* key preserves size and every mapping.
C3_Erase ==
    ret.op = "erase" =>
        /\ find(M, ret.key) = ListEnd
        /\ size(M) = ret.size0 - (IF ret.ref0[ret.key] # None THEN 1 ELSE 0)
        /\ \A k \in Keys \ {ret.key} : Lookup(M, k) = ret.before[k]
        /\ ret.ref0[ret.key] = None => Mapping(M) = ret.before

\* erase of a present key from the middle of a chain
C3_Witness ==
    /\ ret.op = "erase"
    /\ ret.ref0[ret.key] # None
    /\ \E a, b \in Live :
          /\ hasher_[a] = hasher_[ret.key] /\ hasher_[b] = hasher_[ret.key]
          /\ FindObject(M, a) < ret.where0[ret.key]
          /\ ret.where0[ret.key] < FindObject(M, b)

\* every entry of the list lies in exactly one bucket, where FindObject finds it
Placed ==
    \A i \in 1 .. Len(objects_) :
        /\ Cardinality({b \in Occupied : buckets_[b].object_it_ = objects_[i].id}) = 1
        /\ FindObject(M, objects_[i].first) # Size(buckets_)
        /\ buckets_[FindObject(M, objects_[i].first)].object_it_ = objects_[i].id

\* C4: an insert whose InsertObject failed leaves the rehash loop after
\* finitely many attempts, with every entry of the list, the new one included,
\* placed in the table; this for every hasher, the constant 0 included.
C4_InsertTerminates == (pc # "idle") ~> (pc = "idle" /\ Placed)

\* an insert into a container whose keys all hash to 0 that returned after
\* more than one attempt
C4_Witness ==
    /\ pc = "idle"
    /\ ret.op = "insert"
    /\ \A k \in Keys : hasher_[k] = 0
    /\ Size(buckets_) > ret.capacity0 * size_modifier_
    /\ Len(objects_) = ret.size0 + 1
    /\ Placed

\* C5: every entry of the list is referenced by exactly one occupied bucket,
\* every occupied bucket references an entry of the list, and size() is the
\* number of entries and the number of occupied buckets.
C5_EntriesAndBuckets ==
    /\ \A n \in 1 .. Len(objects_) :
          Cardinality({i \in Occupied : buckets_[i].object_it_ = objects_[n].id}) = 1
    /\ \A i \in Occupied :
          /\ \E n \in 1 .. Len(objects_) : objects_[n].id = buckets_[i].object_it_
          /\ buckets_[i].object_const_it_ = buckets_[i].object_it_
    /\ size(M) = Cardinality(Occupied)
    /\ size(M) = Cardinality(Live)

\* an erase out of a table that has grown
C5_Witness ==
    /\ ret.op = "erase"
    /\ ret.ref0[ret.key] # None
    /\ Size(buckets_) > min_neighbourhood_size_
    /\ size(M) >= 3

\* C6: no two occupied buckets hold entries with equal keys, and iterating
\* the container visits exactly the live (key, value) pairs, each key once.
C6_UniqueKeys ==
    /\ \A i, j \in Occupied :
          i # j => Deref(objects_, buckets_[i].object_const_it_).first
                       # Deref(objects_, buckets_[j].object_const_it_).first
    /\ {Iterate(M)[n] : n \in 1 .. Len(Iterate(M))} = {<<k, ref[k]>> : k \in Live}
    /\ Len(Iterate(M)) = Cardinality(Live)

\* an insert of a present key into a container of several entries
C6_Witness ==
    /\ ret.op = "insert"
    /\ ret.ref0[ret.key] # None
    /\ Len(Iterate(M)) >= 3

\* C7: for a live key k, find(k) returns the handle the insert that created k
\* returned, and it still designates the entry of k, whatever was found,
\* inserted or erased since, hops and rehashes included.
C7_HandlesStable ==
    \A k \in Live :
        /\ find(M, k) = made[k]
        /\ Deref(objects_, made[k]).first = k
        /\ Deref(objects_, made[k]).second = ref[k]

\* an insert that rehashed, with a hop on the way, and left the handles of
\* the other keys as they were
C7_Witness ==
    /\ ret.op = "insert"
    /\ ret.ref0[ret.key] = None
    /\ Hopped
    /\ \E k \in Live : k # ret.key /\ find(M, k) = ret.made0[k]

\* C8: at(k) of an absent key throws std::out_of_range and leaves the
\* container unchanged; at(k) of a present key returns its value; find,
\* erase and insert throw nothing.
C8_AtThrows ==
    /\ ret.op = "at" =>
          /\ ret.ref0[ret.key] = None => ret.thrown = "out_of_range"
          /\ ret.ref0[ret.key] # None => ret.thrown = "" /\ ret.value = ret.ref0[ret.key]
          /\ Mapping(M) = ret.before
          /\ size(M) = ret.size0
    /\ ret.op \in {"find", "erase", "insert"} => ret.thrown = ""
    /\ \A k \in Keys : at(M, k).thrown = "out_of_range" <=> find(M, k) = ListEnd

\* at(k) of an absent key of a non-empty container
C8_Witness ==
    /\ ret.op = "at"
    /\ ret.ref0[ret.key] = None
    /\ ret.thrown = "out_of_range"
    /\ size(M) >= 1

\* C9: operator[] of an absent key inserts (key, ValueType{}) and increases
\* size by one; of a present key it returns the existing value and leaves
\* size unchanged; a value stored through the reference it returns is what
\* find, at and operator[] of that key return afterwards.
C9_Subscript ==
    /\ (ret.op = "subscript" /\ ret.ref0[ret.key] = None) =>
          /\ size(M) = ret.size0 + 1
          /\ ret.value = 0
          /\ Lookup(M, ret.key) = 0
    /\ (ret.op = "subscript" /\ ret.ref0[ret.key] # None) =>
          /\ size(M) = ret.size0
          /\ ret.value = ret.ref0[ret.key]
          /\ Mapping(M) = ret.before
    /\ ret.op = "assign" =>
          /\ size(M) = ret.size0 + (IF ret.ref0[ret.key] = None THEN 1 ELSE 0)
          /\ Lookup(M, ret.key) = ret.val
          /\ at(M, ret.key) = [thrown |-> "", value |-> ret.val]
          /\ subscript(M, ret.key).map = M
          /\ Deref(objects_, subscript(M, ret.key).it).second = ret.val

\* mp[k] = v of an absent key, v not ValueType{}
C9_Witness ==
    /\ ret.op = "assign"
    /\ ret.ref0[ret.key] = None
    /\ ret.val # 0
    /\ Lookup(M, ret.key) = ret.val
    /\ size(M) = ret.size0 + 1

\* C10: clear destroys all entries and resets the neighbourhood size and the
\* capacity to 4 whatever they had grown to: size is 0, find of every key
\* returns end(), and the container is the freshly constructed one.
C10_Clear ==
    ret.op = "clear" =>
        /\ size(M) = 0
        /\ neighbourhood_size_ = 4
        /\ Size(buckets_) = 4
        /\ \A k \in Keys : find(M, k) = ListEnd
        /\ M = Empty(hasher_)
        /\ \A k \in Keys, v \in Values : insert(M, k, v) = insert(Empty(hasher_), k, v)

\* clear of a container whose capacity and neighbourhood size had grown
C10_Witness ==
    /\ ret.op = "clear"
    /\ ret.size0 >= 1
    /\ ret.capacity0 > 4
    /\ ret.nsize0 > 4
    /\ size(M) = 0

\* C11: a copy holds exactly the (key, value) pairs of the container it was
\* made from, and from then on each of the two follows its own reference map:
\* an insert, erase, value write or clear on one leaves the mappings and the
\* size of the other as they were.
C11_CopyIndependent ==
    /\ Mapping(M) = ref
    /\ size(M) = Cardinality(Live)
    /\ Len(other) = 1 =>
          /\ Mapping(other[1]) = ref2
          /\ size(other[1]) = Cardinality({k \in Keys : ref2[k] # None})
          /\ ret.op = "copy" =>
                /\ Mapping(other[1]) = Mapping(M)
                /\ {Iterate(other[1])[n] : n \in 1 .. size(other[1])}
                      = {Iterate(M)[n] : n \in 1 .. size(M)}
          /\ ret.op \in {"other.insert", "other.erase", "other.assign", "other.clear"} =>
                Mapping(M) = ret.before /\ size(M) = ret.size0
    /\ ret.op = "operator=" => Mapping(M) = Mapping(other[1]) /\ size(M) = size(other[1])

\* an erase on the copy of a container that had grown, the original keeping
\* a key the copy has lost
C11_Witness ==
    /\ Len(other) = 1
    /\ ret.op = "other.erase"
    /\ Size(buckets_) > min_neighbourhood_size_
    /\ ref2[ret.key] = None
    /\ Lookup(M, ret.key) # None
    /\ Lookup(other[1], ret.key) = None
    /\ size(other[1]) = size(M) - 1

\* C12: when the allocation of the larger table fails during a rehash that an
\* insert started, the std::bad_alloc reaches the caller and the container is
\* consistent with its state before the rehash: every entry of the list lies
\* in exactly one bucket, size() is the number of occupied buckets, and every
\* key present before the insert is still found with its value.
C12_ConsistentAfterBadAlloc ==
    ret.thrown = "bad_alloc" =>
        /\ Placed
        /\ size(M) = Cardinality(Occupied)
        /\ \A k \in Keys : ret.ref0[k] # None => Lookup(M, k) = ret.ref0[k]

\* the home index of the entry a bucket holds, computed from its key
HomeIndex(i) ==
    GetStartBucket(M, Deref(objects_, buckets_[i].object_it_).first)

\* C13: after every public operation, every occupied bucket i holding an
\* entry whose key hashes to home h = hash(key) mod capacity lies in the
\* neighbourhood of h: 0 <= i - h < H, for the current capacity and H.
C13_WithinNeighbourhood ==
    \A i \in Occupied :
        /\ 0 <= i - HomeIndex(i)
        /\ i - HomeIndex(i) < neighbourhood_size_

\* an operation that rehashed and hopped an entry, leaving an entry at the
\* last bucket of its neighbourhood while capacity is larger than H
C13_Witness ==
    /\ Hopped
    /\ Size(buckets_) > neighbourhood_size_
    /\ \E i \in Occupied : i - HomeIndex(i) = neighbourhood_size_ - 1

\* the last public operation has returned, and not by an exception
Returned == pc = "idle" /\ ret.thrown = ""

\* the buckets met from bucket b on by following next_delta_, at most n of
\* them; a link that leaves the table ends the walk at the bucket it names
RECURSIVE ChainWalk(_, _)
ChainWalk(b, n) ==
    IF n = 0 THEN <<>>
    ELSE IF b \notin DOMAIN buckets_ \/ buckets_[b].next_delta_ = NULL_DELTA
         THEN <<b>>
         ELSE <<b>> \o ChainWalk(b + buckets_[b].next_delta_, n - 1)

\* the buckets met by following first_delta_ of home h, then next_delta_
Chain(h) ==
    IF buckets_[h].first_delta_ = NULL_DELTA THEN <<>>
    ELSE ChainWalk(h + buckets_[h].first_delta_, Size(buckets_) + 1)

\* the occupied buckets whose entry has home h
Occupants(h) == {i \in Occupied : HomeIndex(i) = h}

\* C14: in every state, between the steps of an insert as well as after
\* every public operation has returned, for every home h with an occupant,
\* first_delta_ of bucket h is set and the walk along first_delta_ and then
\* next_delta_ visits exactly the occupied buckets of home h, each once, in
\* strictly increasing bucket index; a home without occupant has
\* first_delta_ = NULL_DELTA.
C14_ChainsVisitOccupants ==
    \A h \in DOMAIN buckets_ :
        /\ (Occupants(h) = {}) <=> (buckets_[h].first_delta_ = NULL_DELTA)
        /\ {Chain(h)[j] : j \in 1 .. Len(Chain(h))} = Occupants(h)
        /\ \A j \in 1 .. (Len(Chain(h)) - 1) : Chain(h)[j] < Chain(h)[j + 1]

\* after a rehash with a hop, a chain of at least two buckets that passes
\* over a bucket occupied by an entry of another home
C14_Witness ==
    /\ Returned
    /\ Hopped
    /\ \E h \in DOMAIN buckets_ :
          /\ Len(Chain(h)) >= 2
          /\ \E i \in Occupied :
                /\ Chain(h)[1] < i
                /\ i < Chain(h)[2]
                /\ HomeIndex(i) # h

\* C15: in every state, and so after every public operation has returned,
\* the chains are doubly linked: a bucket a that links to b through
\* next_delta_ is linked back from b through prev_delta_ with the same
\* distance, and the other way round; the first bucket of every chain has
\* prev_delta_ = NULL_DELTA and its last bucket next_delta_ = NULL_DELTA;
\* every empty bucket has prev_delta_ = next_delta_ = NULL_DELTA.
C15_DoublyLinked ==
    /\ \A a \in Occupied :
          buckets_[a].next_delta_ # NULL_DELTA =>
              /\ a + buckets_[a].next_delta_ \in Occupied
              /\ buckets_[a + buckets_[a].next_delta_].prev_delta_ = buckets_[a].next_delta_
    /\ \A b \in Occupied :
          buckets_[b].prev_delta_ # NULL_DELTA =>
              /\ b - buckets_[b].prev_delta_ \in Occupied
              /\ buckets_[b - buckets_[b].prev_delta_].next_delta_ = buckets_[b].prev_delta_
    /\ \A h \in DOMAIN buckets_ :
          Chain(h) # <<>> =>
              /\ buckets_[Chain(h)[1]].prev_delta_ = NULL_DELTA
              /\ buckets_[Chain(h)[Len(Chain(h))]].next_delta_ = NULL_DELTA
    /\ \A i \in DOMAIN buckets_ \ Occupied :
          /\ buckets_[i].prev_delta_ = NULL_DELTA
          /\ buckets_[i].next_delta_ = NULL_DELTA

\* after a rehash in which an entry that has a predecessor in its chain
\* was hopped, so that the link between the two spans another bucket
C15_Witness ==
    /\ Returned
    /\ Hopped
    /\ \E a, b \in 1 .. Len(objects_) :
          /\ a < b
          /\ HomeOf(a) <= BucketOf(b)
          /\ BucketOf(b) < BucketOf(a)
          /\ buckets_[BucketOf(a)].prev_delta_ # NULL_DELTA
          /\ buckets_[BucketOf(a)].prev_delta_ > 1

\* the dimensions the policy of rehash gives for the current ones
Policy(capacity, H, count) ==
    IF count >= capacity THEN <<capacity * 3, H>>
    ELSE IF H * 3 >= capacity THEN <<capacity * 3, H * 3>>
    ELSE <<capacity, H * 3>>

\* C16: every rehash attempt made in HandleCollision reallocates the table
\* to the dimensions the policy gives for the current capacity, H and entry
\* count: (capacity * 3, H) when count >= capacity, else (capacity * 3,
\* H * 3) when H * 3 >= capacity, else (capacity, H * 3).  When an entry
\* cannot be placed in the rebuilt table, the next attempt applies the policy
\* to the dimensions of that table; when all are placed, insert returns.
C16_RehashPolicy ==
    [][ /\ (pc = "HandleCollision" /\ Len(objects_) < Size(buckets_)) =>
              /\ pc' = "while"
              /\ <<Size(buckets_'), neighbourhood_size_'>> =
                     <<Size(buckets_), neighbourhood_size_>>
        /\ \/ pc = "HandleCollision" /\ Len(objects_) >= Size(buckets_)
           \/ pc = "while"
           => /\ <<Size(buckets_'), neighbourhood_size_'>> =
                     Policy(Size(buckets_), neighbourhood_size_, Len(objects_))
              /\ (pc' = "idle") <=> Placed'
              /\ (pc' = "while") <=> ~Placed'
      ]_vars

\* an insert has returned after one attempt that kept the capacity 36 and
\* tripled H from 4 to 12
C16_Witness ==
    /\ pc = "idle"
    /\ ret.op = "insert"
    /\ ret.capacity0 = 36
    /\ ret.nsize0 = 4
    /\ Size(buckets_) = 36
    /\ neighbourhood_size_ = 12

\* the container the call of InsertObject recorded in ret.placing found
Placed0 ==
    Map(objects_, ret.placing[1].buckets_, ret.placing[1].neighbourhood_size_, hasher_)

\* the hops made by the call of InsertObject recorded in ret.placing
HopsMade ==
    IF ret.placing = <<>> THEN <<>>
    ELSE Only({ IF free = Size(p.buckets_) THEN <<>>
                ELSE HopMoves(p.buckets_, p.neighbourhood_size_, start, free) :
                p \in {ret.placing[1]},
                start \in {GetStartBucket(Placed0,
                                          Deref(objects_, ret.placing[1].it).first)},
                free \in {FreeBucket(ret.placing[1].buckets_,
                                     GetStartBucket(Placed0,
                                                    Deref(objects_, ret.placing[1].it).first))} })

\* the occupants of the window [f - (H - 1), f - 1] that may move to the
\* free bucket f: those whose home h has f - h < H
Candidates(bk, nsize, f) ==
    {s \in DOMAIN bk : /\ f - (nsize - 1) <= s
                       /\ s <= f - 1
                       /\ bk[s].object_bucket_ # EMPTY_BUCKET
                       /\ f - bk[s].object_bucket_ < nsize}

\* C17 as stated: at every hop the occupant moved is the candidate with the
\* smallest bucket index.
C17_MovesEarliest ==
    \A n \in 1 .. Len(HopsMade) :
        \A s \in Candidates(HopsMade[n].buckets_, ret.placing[1].neighbourhood_size_,
                             HopsMade[n].free) :
            HopsMade[n].fit <= s

\* C17, as the code has it: at every hop of InsertObject the occupant moved
\* is one of the candidates of the window, and it is the one with the largest
\* bucket index, the candidate nearest to the free bucket.
C17_MovesNearest ==
    \A n \in 1 .. Len(HopsMade) :
        /\ HopsMade[n].fit \in Candidates(HopsMade[n].buckets_,
                                           ret.placing[1].neighbourhood_size_,
                                           HopsMade[n].free)
        /\ \A s \in Candidates(HopsMade[n].buckets_, ret.placing[1].neighbourhood_size_,
                                HopsMade[n].free) :
              s <= HopsMade[n].fit

\* an InsertObject has made a hop for which the window held two candidates
C17_Witness ==
    \E n \in 1 .. Len(HopsMade) :
        Cardinality(Candidates(HopsMade[n].buckets_, ret.placing[1].neighbourhood_size_,
                               HopsMade[n].free)) >= 2

\* the first occupant met from bucket s downward to the lower end of the
\* window of f whose home lies in [f - (H - 1), f]; NULL_DELTA when none
RECURSIVE ScanBackward(_, _, _, _)
ScanBackward(bk, nsize, f, s) ==
    IF s < 0 \/ s < f - (nsize - 1) THEN NULL_DELTA
    ELSE IF /\ bk[s].object_bucket_ # EMPTY_BUCKET
            /\ f - (nsize - 1) <= bk[s].object_bucket_
            /\ bk[s].object_bucket_ <= f
         THEN s
         ELSE ScanBackward(bk, nsize, f, s - 1)

\* the call of InsertObject recorded in ret.placing: its home bucket, the
\* table and the free bucket when its hop loop ended, and its outcome
LastStart ==
    GetStartBucket(Placed0, Deref(objects_, ret.placing[1].it).first)
LastTable ==
    IF HopsMade = <<>> THEN ret.placing[1].buckets_
    ELSE Hop(HopsMade[Len(HopsMade)].buckets_, HopsMade[Len(HopsMade)].free,
             HopsMade[Len(HopsMade)].fit)
LastFree ==
    IF HopsMade = <<>> THEN FreeBucket(ret.placing[1].buckets_, LastStart)
    ELSE HopsMade[Len(HopsMade)].fit
LastOutcome ==
    InsertObject(Placed0, ret.placing[1].it)

\* the hop loop of the last call ended outside the neighbourhood of the home
\* bucket with no occupant of the window able to move
Stuck ==
    /\ ret.placing # <<>>
    /\ LastFree # Size(LastTable)
    /\ LastFree - LastStart >= ret.placing[1].neighbourhood_size_
    /\ ScanBackward(LastTable, ret.placing[1].neighbourhood_size_, LastFree,
                    LastFree - 1) = NULL_DELTA

\* C18: at every hop the occupant moved is the first one met, scanning
\* backward from f - 1 toward f - (H - 1), whose home lies in
\* [f - (H - 1), f]; when the scan meets none, InsertObject returns end()
\* with the entry in no bucket, and the caller goes on to rehash: insert
\* calls HandleCollision, Reallocate returns false to its loop.
C18_BackwardScan ==
    /\ \A n \in 1 .. Len(HopsMade) :
          HopsMade[n].fit = ScanBackward(HopsMade[n].buckets_,
                                         ret.placing[1].neighbourhood_size_,
                                         HopsMade[n].free, HopsMade[n].free - 1)
    /\ Stuck =>
          /\ LastOutcome.bucket = Size(ret.placing[1].buckets_)
          /\ LastOutcome.buckets_ = LastTable
          /\ \A i \in DOMAIN LastTable :
                LastTable[i].object_bucket_ # EMPTY_BUCKET =>
                    LastTable[i].object_it_ # ret.placing[1].it
          /\ \/ pc \in {"HandleCollision", "while"}
             \/ pc = "Reallocate" /\ NumPlaced(buckets_) = 0
             \/ ret.thrown = "bad_alloc"

\* the InsertObject called by insert met no occupant able to move, in a table
\* that is not full; insert is about to call HandleCollision
C18_Witness ==
    /\ Stuck
    /\ pc = "HandleCollision"
    /\ Len(objects_) < Size(buckets_)

\* a step of insert that pushed the entry of a new key on the list and
\* called InsertObject for it, and whether that call returned end()
NewKeyStep == pc = "idle" /\ Len(objects_') = Len(objects_) + 1
PlaceFailed ==
    InsertObject(Map(objects_', buckets_, neighbourhood_size_, hasher_),
                 objects_'[1].id).bucket = Size(buckets_)

\* C19 as stated: the insert of a new key goes on to rehash (it calls
\* HandleCollision) when InsertObject failed, and also when the entry count,
\* the new entry included, has reached the capacity.
C19_RehashOnFailureOrLoad ==
    [][ (NewKeyStep /\ (PlaceFailed \/ Len(objects_') >= Size(buckets_)))
            => pc' = "HandleCollision"
      ]_vars

\* C19, as the code has it: the insert of a new key calls HandleCollision
\* exactly when InsertObject failed, which it does whenever the table was
\* full before the insert; an insert that brings the entry count up to the
\* capacity and finds a bucket returns with the table as InsertObject left it.
C19_RehashOnFailure ==
    [][ NewKeyStep =>
            /\ (pc' = "HandleCollision") <=> PlaceFailed
            /\ (Len(objects_) >= Size(buckets_)) => PlaceFailed
            /\ (~PlaceFailed) =>
                  /\ pc' = "idle"
                  /\ Size(buckets_') = Size(buckets_)
                  /\ neighbourhood_size_' = neighbourhood_size_
      ]_vars

\* the fourth key was inserted into the table of capacity 4 and was placed:
\* the entry count has reached the capacity and insert has returned without
\* a rehash
C19_Witness ==
    /\ pc = "idle"
    /\ ret.op = "insert"
    /\ ret.ref0[ret.key] = None
    /\ ret.it # NoIter
    /\ Len(objects_) = Size(buckets_)
    /\ ~Rehashed
    /\ Placed

\* C20: in every state the capacity is at least the neighbourhood size, which
\* is positive, in the container and in its copy; both are 4 in the container
\* HashMap(hasher) constructs and after clear, and a copy is made with a
\* capacity and a neighbourhood size no smaller than those copied.
C20_CapacityAtLeastH ==
    /\ Size(buckets_) >= neighbourhood_size_
    /\ neighbourhood_size_ > 0
    /\ ret.op = "HashMap" =>
          /\ Size(buckets_) = min_neighbourhood_size_
          /\ neighbourhood_size_ = min_neighbourhood_size_
    /\ ret.op = "clear" =>
          /\ Size(buckets_) = min_neighbourhood_size_
          /\ neighbourhood_size_ = min_neighbourhood_size_
    /\ \A n \in 1 .. Len(other) :
          /\ Size(other[n].buckets_) >= other[n].neighbourhood_size_
          /\ other[n].neighbourhood_size_ > 0
    /\ ret.op = "copy" =>
          /\ Size(other[1].buckets_) >= Size(buckets_)
          /\ other[1].neighbourhood_size_ >= neighbourhood_size_

\* a container that a rehash has grown to a neighbourhood size above 4 has
\* been copied
C20_Witness ==
    /\ ret.op = "copy"
    /\ neighbourhood_size_ > min_neighbourhood_size_
    /\ Len(objects_) >= 2
    /\ Len(other[1].objects_) = Len(objects_)

\* a step that is a call of erase, and the bucket FindObject gives it
EraseStep == ops' = ops + 1 /\ ret'.op = "erase"
ErasedBucket == FindObject(M, ret'.key)

\* C21: erase of a present or an absent key leaves capacity and H as they
\* were.  For an absent key nothing changes.  For a present key the entry
\* leaves the list, its bucket becomes empty, every other bucket keeps its
\* entry and its home index, and the only links that change are those of the
\* erased bucket, next_delta_ of its predecessor, prev_delta_ of its
\* successor, and first_delta_ of its home when it was the head of the chain.
C21_EraseFrame ==
    [][ EraseStep =>
          /\ Size(buckets_') = Size(buckets_)
          /\ neighbourhood_size_' = neighbourhood_size_
          /\ IF ErasedBucket = Size(buckets_)
             THEN buckets_' = buckets_ /\ objects_' = objects_
             ELSE /\ objects_' = ListErase(objects_, buckets_[ErasedBucket].object_it_)
                  /\ buckets_'[ErasedBucket].object_bucket_ = EMPTY_BUCKET
                  /\ \A i \in DOMAIN buckets_ \ {ErasedBucket} :
                        /\ buckets_'[i].object_bucket_ = buckets_[i].object_bucket_
                        /\ buckets_'[i].object_it_ = buckets_[i].object_it_
                        /\ buckets_'[i].object_const_it_ = buckets_[i].object_const_it_
                  /\ \A k \in Keys \ {ret'.key} : FindObject(M', k) = FindObject(M, k)
                  /\ \A i \in DOMAIN buckets_ \ {ErasedBucket} :
                        /\ buckets_'[i].next_delta_ # buckets_[i].next_delta_ =>
                              /\ buckets_[ErasedBucket].prev_delta_ # NULL_DELTA
                              /\ i = ErasedBucket - buckets_[ErasedBucket].prev_delta_
                        /\ buckets_'[i].prev_delta_ # buckets_[i].prev_delta_ =>
                              /\ buckets_[ErasedBucket].next_delta_ # NULL_DELTA
                              /\ i = ErasedBucket + buckets_[ErasedBucket].next_delta_
                  /\ \A i \in DOMAIN buckets_ :
                        buckets_'[i].first_delta_ # buckets_[i].first_delta_ =>
                            /\ buckets_[ErasedBucket].prev_delta_ = NULL_DELTA
                            /\ i = buckets_[ErasedBucket].object_bucket_
      ]_vars

\* erase has removed a key from the middle of a chain in a table that a
\* rehash had grown: its two neighbours are linked to each other
C21_Witness ==
    /\ ret.op = "erase"
    /\ ret.where0[ret.key] # ret.capacity0
    /\ ret.capacity0 > min_neighbourhood_size_
    /\ Size(buckets_) = ret.capacity0
    /\ \E a \in Occupied :
          /\ a < ret.where0[ret.key]
          /\ buckets_[a].next_delta_ # NULL_DELTA
          /\ a + buckets_[a].next_delta_ > ret.where0[ret.key]
          /\ buckets_[a].object_bucket_ =
                 GetStartBucket(M, ret.key)

\* C22: in every state, those between the statements of erase included, an
\* occupied bucket refers to an entry that is in the list: erase empties the
\* bucket before it removes the entry from the list.
C22_NoDanglingHandle ==
    \A i \in Occupied :
        \E n \in 1 .. Len(objects_) : objects_[n].id = buckets_[i].object_it_

\* the empty buckets of the table the last call of InsertObject found
EmptyBefore ==
    {i \in DOMAIN ret.placing[1].buckets_ :
        ret.placing[1].buckets_[i].object_bucket_ = EMPTY_BUCKET}

\* C23: InsertObject probes from the home bucket h of the entry toward the
\* end of the table and does not wrap: when it succeeds, the bucket it
\* returns holds the entry and lies at or after h; when no bucket of
\* [h, capacity) is empty it returns end() and leaves the table as it was,
\* whatever buckets are empty below h, and its caller goes on to rehash.
C23_ProbeDoesNotWrap ==
    ret.placing # <<>> =>
        /\ LastOutcome.bucket # Size(ret.placing[1].buckets_) =>
              /\ LastOutcome.bucket >= LastStart
              /\ LastOutcome.buckets_[LastOutcome.bucket].object_it_ = ret.placing[1].it
              /\ LastOutcome.buckets_[LastOutcome.bucket].object_bucket_ = LastStart
        /\ (\A i \in EmptyBefore : i < LastStart) =>
              /\ LastOutcome.bucket = Size(ret.placing[1].buckets_)
              /\ LastOutcome.buckets_ = ret.placing[1].buckets_
              /\ \/ pc \in {"HandleCollision", "while"}
                 \/ pc = "Reallocate" /\ NumPlaced(buckets_) = 0
                 \/ ret.thrown = "bad_alloc"

\* the InsertObject called by insert found every bucket from the home bucket
\* to the end occupied while a bucket below the home bucket was empty;
\* insert is about to call HandleCollision
C23_Witness ==
    /\ ret.placing # <<>>
    /\ pc = "HandleCollision"
    /\ EmptyBefore # {}
    /\ \A i \in EmptyBefore : i < LastStart
    /\ buckets_ = ret.placing[1].buckets_

====
